---- MODULE Spec2Model ----
(***************************************************************************)
(* The dashboard script src/app.js as a state machine.  The file holds two *)
(* variants of the same script: the flat variant (lines 1-133, one market  *)
(* table) and the split variant (lines 135-291, gainers / losers tables    *)
(* and a sentiment label).  JavaScript values are tagged records, numbers  *)
(* that may be NaN are records [nan, v], and a block that may raise is a   *)
(* record [dom, threw] threaded through its statements.                    *)
(***************************************************************************)
EXTENDS Integers, Sequences, FiniteSets, TLC

VARIABLES
  variant,      \* which script the page loads: "flat" or "split"
  present,      \* the targets the page holds
  dom,          \* element id -> content
  server,       \* the version of the feeds the server holds
  cycles,       \* start order -> the cycles awaiting their fetches
  started,      \* the number of cycles started so far
  timerArmed,   \* setInterval and addEventListener have run
  loadFired,    \* the window's load event has fired
  last,         \* the cycle that settled last, and what it did
  call          \* the last direct call of a helper, with its result

vars == <<variant, present, dom, server, cycles, started, timerArmed, loadFired,
          last, call>>

(***************************************************************************)
(* Bounds of the model.                                                    *)
(***************************************************************************)
MaxDays == 2
MaxItems == 2
MaxClientW == 3
MaxScrollW == 3
MaxClones == 12
MaxVer == 2
MaxCycles == 3
FeedCycles == 2
MaxPrices == 3
MaxChange == 2

(***************************************************************************)
(* JavaScript values.                                                      *)
(***************************************************************************)
Undef == [t |-> "undefined"]
JNull == [t |-> "null"]
JStr(s) == [t |-> "string", v |-> s]
JNum(n) == [t |-> "number", v |-> n]
JArr(s) == [t |-> "array", v |-> s]
\* A string that parses as a date denotes an instant: ms since the epoch.
IsoStr(ms) == [t |-> "string", v |-> "iso", ms |-> ms]
BadDateStr == [t |-> "string", v |-> "not a date", ms |-> 0]

Truthy(x) ==
  CASE x.t \in {"undefined", "null"} -> FALSE
    [] x.t = "string" -> x.v # ""
    [] x.t = "number" -> x.v # 0
    [] OTHER -> TRUE

\* x || y
OrElse(x, y) == IF Truthy(x) THEN x ELSE y

\* Can a property of x be read?  (reading one of undefined / null raises)
Derefable(x) == x.t \notin {"undefined", "null"}

\* Template-literal / textContent text of a primitive.
TextOf(x) ==
  CASE x.t = "undefined" -> "undefined"
    [] x.t = "null" -> "null"
    [] x.t = "string" -> x.v
    [] x.t = "number" -> ToString(x.v)
    [] OTHER -> "[object]"

\* Node.textContent = x : null and undefined give the empty string.
TextContentOf(x) == IF x.t \in {"undefined", "null"} THEN "" ELSE TextOf(x)

(***************************************************************************)
(* Numbers that may be NaN (Date.prototype.getTime, Math.max, Math.floor). *)
(***************************************************************************)
Num(n) == [nan |-> FALSE, v |-> n]
NaN == [nan |-> TRUE, v |-> 0]
NumSub(a, b) == IF a.nan \/ b.nan THEN NaN ELSE Num(a.v - b.v)
MathMax(a, b) == IF a.nan \/ b.nan THEN NaN ELSE Num(IF a.v >= b.v THEN a.v ELSE b.v)
\* Math.floor(a / k), k > 0
FloorDiv(a, k) == IF a.nan THEN NaN ELSE Num(a.v \div k)
\* a < k : false when a is NaN
Less(a, k) == ~a.nan /\ a.v < k
NumText(a) == IF a.nan THEN "NaN" ELSE ToString(a.v)

\* new Date(x).getTime()
DateGetTime(x) ==
  CASE x.t = "string" /\ x.v = "iso" -> Num(x.ms)
    [] x.t = "number" -> Num(x.v)
    [] x.t = "null" -> Num(0)
    [] OTHER -> NaN

MsPerMin == 60000

\* fmtTimeAgo with the minutes tier closed at 60 (mins <= 60): the hour
\* boundary moved by one minute.
FmtTimeAgoPartsLateHour(dateStr, now) ==
  LET delta == MathMax(Num(0), NumSub(Num(now), DateGetTime(dateStr)))
      mins == FloorDiv(delta, MsPerMin)
      hrs == FloorDiv(mins, 60)
      days == FloorDiv(hrs, 24)
  IN IF Less(mins, 1) THEN [unit |-> "now", n |-> mins]
     ELSE IF Less(mins, 61) THEN [unit |-> "m", n |-> mins]
     ELSE IF Less(hrs, 24) THEN [unit |-> "h", n |-> hrs]
     ELSE [unit |-> "d", n |-> days]

\* The return statement fmtTimeAgo takes and the number it prints.  new Date
\* and getTime raise for no value a JSON feed can hold, so the catch clause
\* (return '') is never entered.
FmtTimeAgoParts(dateStr, now) ==
  LET delta == MathMax(Num(0), NumSub(Num(now), DateGetTime(dateStr)))
      mins == FloorDiv(delta, MsPerMin)
      hrs == FloorDiv(mins, 60)
      days == FloorDiv(hrs, 24)
  IN IF Less(mins, 1) THEN [unit |-> "now", n |-> mins]
     ELSE IF Less(mins, 60) THEN [unit |-> "m", n |-> mins]
     ELSE IF Less(hrs, 24) THEN [unit |-> "h", n |-> hrs]
     ELSE [unit |-> "d", n |-> days]

fmtTimeAgo(dateStr, now) ==
  LET p == FmtTimeAgoParts(dateStr, now)
  IN IF p.unit = "now" THEN "just now" ELSE NumText(p.n) \o p.unit \o " ago"

(***************************************************************************)
(* The DOM.  dom maps an element id to its content; present is the set of  *)
(* targets the page holds (".ticker-wrap" is the ticker's container, found *)
(* with querySelector, and has no content of its own).                     *)
(***************************************************************************)
ListIds == {"x_breaking", "breaking", "day", "week", "month"}
FlatTargets == ListIds \cup {".ticker-wrap", "ticker", "market-body", "lastUpdated"}
SplitTargets == ListIds \cup {".ticker-wrap", "ticker", "gainers-body", "losers-body",
                              "sentiment-indicator", "lastUpdated"}
Targets(v) == IF v = "flat" THEN FlatTargets ELSE SplitTargets

\* The outcome of a statement: the DOM it leaves and whether it raised.
Ok(d) == [dom |-> d, threw |-> FALSE]
Threw(d) == [dom |-> d, threw |-> TRUE]
\* F applied to the value of x, computed once.
Let(x, F(_)) == CHOOSE y \in {F(v) : v \in {x}} : TRUE
\* Statement sequencing: F runs only when nothing before it raised.
Then(r, F(_)) == Let(r, LAMBDA r0 : IF r0.threw THEN r0 ELSE F(r0.dom))

\* obj.f : undefined when obj has no such property.
Field(x, f) == IF x.t = "object" /\ f \in DOMAIN x THEN x[f] ELSE Undef

Min(a, b) == IF a <= b THEN a ELSE b
Take(s, n) == SubSeq(s, 1, Min(n, Len(s)))

\* The first index of s whose element cannot be dereferenced, Len(s)+1 if none.
FirstBad(s) ==
  IF \E i \in 1..Len(s) : ~Derefable(s[i])
  THEN CHOOSE i \in 1..Len(s) : ~Derefable(s[i]) /\ \A j \in 1..(i - 1) : Derefable(s[j])
  ELSE Len(s) + 1

\* The separator of the metadata label (the source has " • ").
Bullet == " * "

\* One <li>: the anchor's href and text, and the metadata label.
ListEntry(it, now) ==
  [href |-> TextOf(Field(it, "link")),
   text |-> TextContentOf(Field(it, "title")),
   meta |-> fmtTimeAgo(Field(it, "published_at"), now)
            \o (IF Truthy(Field(it, "source"))
                THEN Bullet \o TextOf(Field(it, "source")) ELSE "")]

\* renderList without `el.innerHTML = ''`: the new entries follow the old.
ListChildrenKept(before, items, now) ==
  LET its == OrElse(items, JArr(<<>>))
      k == IF its.t = "array" THEN FirstBad(its.v) ELSE 1
  IN before \o [i \in 1..(k - 1) |-> ListEntry(its.v[i], now)]

\* The children renderList leaves when it starts from the children `before`.
ListChildren(before, items, now) ==
  LET its == OrElse(items, JArr(<<>>))
      k == IF its.t = "array" THEN FirstBad(its.v) ELSE 1
  IN [i \in 1..(k - 1) |-> ListEntry(its.v[i], now)]

renderList(d, id, items, now) ==
  IF id \notin present THEN Ok(d)
  ELSE LET its == OrElse(items, JArr(<<>>))
           d2 == [d EXCEPT ![id] = ListChildren(d[id], items, now)]
       IN IF its.t # "array" THEN Threw(d2)          \* not iterable
          ELSE IF FirstBad(its.v) <= Len(its.v) THEN Threw(d2)  \* it.link of null
          ELSE Ok(d2)

(***************************************************************************)
(* Price formatting shared by the ticker and the tables.                   *)
(***************************************************************************)
\* String.prototype.toUpperCase over the symbols the feeds carry.
ToUpperCase(s) ==
  CASE s = "btc" -> "BTC"
    [] s = "eth" -> "ETH"
    [] s = "xrp" -> "XRP"
    [] OTHER -> s

SymbolText(c) == ToUpperCase(TextOf(OrElse(Field(c, "symbol"), JStr(""))))

\* `$${Number(p.price).toLocaleString()}` : the feeds' prices are integers
\* below 1000, which toLocaleString prints without grouping; Number(null) is 0.
PriceText(c) ==
  LET p == Field(c, "price")
  IN IF p.t = "undefined" THEN ""
     ELSE IF p.t = "null" THEN "$0"
     ELSE "$" \o TextOf(p)

Abs(n) == IF n < 0 THEN -n ELSE n
TwoDigits(n) == IF n < 10 THEN "0" \o ToString(n) ELSE ToString(n)
\* Number.prototype.toFixed(2) of a value held in hundredths.
Fixed2(h) ==
  (IF h < 0 THEN "-" ELSE "") \o ToString(Abs(h) \div 100) \o "." \o TwoDigits(Abs(h) % 100)

\* One table row; cls is the class given to a numeric change cell.
TableRow(c, cls) ==
  LET ch == Field(c, "change24h")
  IN [name |-> SymbolText(c),
      price |-> PriceText(c),
      change |-> IF ch.t = "number" THEN Fixed2(ch.v) \o "%" ELSE "-",
      cls |-> IF ch.t = "number" THEN cls ELSE ""]

SignClass(c) ==
  LET ch == Field(c, "change24h")
  IN IF ch.t = "number" /\ ch.v >= 0 THEN "positive" ELSE "negative"

(***************************************************************************)
(* setupTicker.  The ticker element holds `clones` copies of one run of    *)
(* labels; duration is its --ticker-duration style property.               *)
(***************************************************************************)
DefaultContainerW == 800
TickerSpeed == 100
MinDuration == 20

\* `${rank} ${sym} ${price}`
TickerLabel(p) ==
  (IF Truthy(Field(p, "rank")) THEN "#" \o TextOf(Field(p, "rank")) ELSE "")
  \o " " \o SymbolText(p) \o " " \o PriceText(p)

\* wrap.clientWidth || 800
ContainerW(cw) == IF cw # 0 THEN cw ELSE DefaultContainerW

\* The clone loop with the test `totalW <= containerW * 2`: it goes round
\* once more when the clones fill twice the container exactly.
RECURSIVE TickerLoopInclusive(_, _, _, _, _)
TickerLoopInclusive(containerW, pat, totalW, n, lastW) ==
  IF totalW <= containerW * 2
  THEN Let(IF pat[(n % Len(pat)) + 1] # 0 THEN pat[(n % Len(pat)) + 1] ELSE containerW,
           LAMBDA w : TickerLoopInclusive(containerW, pat, totalW + w, n + 1, w))
  ELSE [totalW |-> totalW, clones |-> n, lastW |-> lastW]

\* The clone loop.  pat gives the scrollWidth the layout reports for each
\* clone in turn (the n-th clone reads pat[(n mod Len(pat)) + 1]).  The result
\* is the accumulated width, the number of clones appended and the width the
\* last one added.
RECURSIVE TickerLoop(_, _, _, _, _)
TickerLoop(containerW, pat, totalW, n, lastW) ==
  IF totalW < containerW * 2
  THEN Let(IF pat[(n % Len(pat)) + 1] # 0 THEN pat[(n % Len(pat)) + 1] ELSE containerW,
           LAMBDA w : TickerLoop(containerW, pat, totalW + w, n + 1, w))
  ELSE [totalW |-> totalW, clones |-> n, lastW |-> lastW]

\* Math.max(20, Math.round(totalW / speed))
TickerDuration(totalW) ==
  LET r == (2 * totalW + TickerSpeed) \div (2 * TickerSpeed)
  IN IF r > MinDuration THEN r ELSE MinDuration

setupTicker(d, prices, cw, pat) ==
  IF ".ticker-wrap" \notin present \/ "ticker" \notin present THEN Ok(d)
  ELSE LET cleared == [d EXCEPT !["ticker"] = [run |-> <<>>, clones |-> 0,
                                                duration |-> d["ticker"].duration]]
       IN IF prices.t # "array" \/ Len(prices.v) = 0 THEN Ok(cleared)
          ELSE IF FirstBad(prices.v) <= Len(prices.v) THEN Threw(cleared)  \* p.symbol of null
          ELSE Let(TickerLoop(ContainerW(cw), pat, 0, 0, 0), LAMBDA loop :
                 Ok([d EXCEPT !["ticker"] =
                       [run |-> [i \in 1..Len(prices.v) |-> TickerLabel(prices.v[i])],
                        clones |-> loop.clones,
                        duration |-> ToString(TickerDuration(loop.totalW)) \o "s"]]))

(***************************************************************************)
(* The tables.                                                             *)
(***************************************************************************)
MarketRows == 50
GainerLoserRows == 15

\* The rows a table body holds after rendering `list` into it: every row up to
\* the first item that cannot be dereferenced (c.symbol of null raises).
TableRows(list, limit, classOf(_)) ==
  LET rows == Take(list, limit)
  IN [i \in 1..(FirstBad(rows) - 1) |-> TableRow(rows[i], classOf(rows[i]))]

TableThrows(list, limit) == FirstBad(Take(list, limit)) <= Len(Take(list, limit))

\* (x || []) as a sequence; the feeds give arrays or nothing here.
ArrayOr(x) == IF Truthy(x) /\ x.t = "array" THEN x.v ELSE <<>>

\* Flat variant.
renderMarkets(d, prices) ==
  IF "market-body" \notin present THEN Ok(d)
  ELSE LET list == ArrayOr(prices)
           d2 == [d EXCEPT !["market-body"] = TableRows(list, MarketRows, SignClass)]
       IN IF TableThrows(list, MarketRows) THEN Threw(d2) ELSE Ok(d2)

\* prices.prices.reduce((sum, p) => sum + (p.change24h || 0), 0), in hundredths
RECURSIVE SumChange(_)
SumChange(list) ==
  IF Len(list) = 0 THEN 0
  ELSE LET ch == OrElse(Field(list[Len(list)], "change24h"), JNum(0))
       IN SumChange(SubSeq(list, 1, Len(list) - 1)) + ch.v

\* avgChange.toFixed(2) for avgChange = sum / len, both in hundredths: the
\* nearest hundredth.  An exact tie is decided by the binary representation of
\* the quotient, which the model leaves open: tie is "up" or "down" (in
\* magnitude).  0 / 0 is NaN.
AvgFixed2(sum, len, tie) ==
  IF len = 0 THEN "NaN"
  ELSE LET a == Abs(sum)
           q == a \div len
           r == a % len
           h == IF 2 * r > len \/ (2 * r = len /\ tie = "up") THEN q + 1 ELSE q
       IN (IF sum < 0 THEN "-" ELSE "") \o ToString(h \div 100) \o "." \o TwoDigits(h % 100)

\* The label with the test `avgChange >= 0`.
SentimentNonNegative(sum, len) == IF len # 0 /\ sum >= 0 THEN "Bullish" ELSE "Bearish"

\* avgChange > 0 ? 'Bullish' : 'Bearish'   (NaN > 0 is false)
Sentiment(sum, len) == IF len # 0 /\ sum > 0 THEN "Bullish" ELSE "Bearish"

SentimentText(list, tie) ==
  [sentiment |-> Sentiment(SumChange(list), Len(list)),
   avg |-> AvgFixed2(SumChange(list), Len(list), tie)]

\* Split variant.
renderGainersLosers(d, prices, tie) ==
  IF "gainers-body" \notin present \/ "losers-body" \notin present THEN Ok(d)
  ELSE
    LET g == ArrayOr(Field(prices, "gainers"))
        l == ArrayOr(Field(prices, "losers"))
        pp == Field(prices, "prices")
        gainers(d0) ==
          LET d1 == [d0 EXCEPT !["gainers-body"] =
                       TableRows(g, GainerLoserRows, LAMBDA c : "positive")]
          IN IF ~Derefable(prices) THEN Threw([d0 EXCEPT !["gainers-body"] = <<>>])
             ELSE IF TableThrows(g, GainerLoserRows) THEN Threw(d1) ELSE Ok(d1)
        losers(d0) ==
          LET d1 == [d0 EXCEPT !["losers-body"] =
                       TableRows(l, GainerLoserRows, LAMBDA c : "negative")]
          IN IF TableThrows(l, GainerLoserRows) THEN Threw(d1) ELSE Ok(d1)
        sentiment(d0) ==
          IF "sentiment-indicator" \notin present THEN Ok(d0)
          ELSE IF pp.t # "array" THEN Threw(d0)                  \* undefined.reduce
          ELSE IF FirstBad(pp.v) <= Len(pp.v) THEN Threw(d0)     \* p.change24h of null
          ELSE Ok([d0 EXCEPT !["sentiment-indicator"] = SentimentText(pp.v, tie)])
    IN Then(Then(gainers(d), losers), sentiment)

\* new Date(iso).toLocaleString(), an instant printed as its ms
DateText(iso) ==
  LET ms == DateGetTime(iso)
  IN IF ms.nan THEN "Invalid Date" ELSE "@" \o ToString(ms.v)

setLastUpdated(d, iso) ==
  IF "lastUpdated" \in present /\ Truthy(iso)
  THEN Ok([d EXCEPT !["lastUpdated"] = "Last updated " \o DateText(iso)])
  ELSE Ok(d)

(***************************************************************************)
(* loadJSON.  A response is what the network gives back for one request:   *)
(* net is false when fetch itself rejects, ok is res.ok, json is whether   *)
(* the body parses, body the parsed value.                                 *)
(***************************************************************************)
Rejected == [st |-> "rejected", val |-> Undef]
Fulfilled(v) == [st |-> "fulfilled", val |-> v]

\* loadJSON without `if (!res.ok) throw`: the body of an error response is
\* parsed and returned.
loadJSONAnyStatus(resp) ==
  IF ~resp.net THEN Rejected
  ELSE IF ~resp.json THEN Rejected
  ELSE Fulfilled(resp.body)

loadJSON(resp) ==
  IF ~resp.net THEN Rejected
  ELSE IF ~resp.ok THEN Rejected
  ELSE IF ~resp.json THEN Rejected
  ELSE Fulfilled(resp.body)

ResponseKinds == {"ok", "http_error", "network_error", "bad_json"}

Response(kind, body) ==
  [net |-> kind # "network_error",
   ok |-> kind \in {"ok", "bad_json"},
   json |-> kind \in {"ok", "http_error"},
   body |-> IF kind \in {"ok", "http_error"} THEN body ELSE Undef]

(***************************************************************************)
(* refreshAll and the two ticker-only handlers.                            *)
(***************************************************************************)
\* Array.isArray(prices) ? prices : []
ArrayOrEmpty(x) == IF x.t = "array" THEN x ELSE JArr(<<>>)

\* The statements of the try block after the await, in order.
RenderAll(v, d, headlines, prices, now, cw, pat, tie) ==
  IF ~Derefable(headlines) THEN Threw(d)             \* headlines.x_breaking of null
  ELSE
    LET bucket(id) == OrElse(Field(headlines, id), JArr(<<>>))
        xBreaking(d0) == renderList(d0, "x_breaking", bucket("x_breaking"), now)
        breaking(d0) == renderList(d0, "breaking", bucket("breaking"), now)
        day(d0) == renderList(d0, "day", bucket("day"), now)
        week(d0) == renderList(d0, "week", bucket("week"), now)
        month(d0) == renderList(d0, "month", bucket("month"), now)
        flatTicker(d0) == setupTicker(d0, ArrayOrEmpty(prices), cw, pat)
        flatMarkets(d0) == renderMarkets(d0, ArrayOrEmpty(prices))
        splitTicker(d0) ==
          IF ~Derefable(prices) THEN Threw(d0)         \* prices.prices of null
          ELSE setupTicker(d0, OrElse(Field(prices, "prices"), JArr(<<>>)), cw, pat)
        splitTables(d0) == renderGainersLosers(d0, prices, tie)
        stamp(d0) == setLastUpdated(d0, Field(headlines, "generated_at"))
    IN IF v = "flat"
       THEN Then(Then(Then(Then(Then(Then(Then(xBreaking(d), breaking), day), week),
                 month), flatTicker), flatMarkets), stamp)
       ELSE Then(Then(Then(Then(Then(Then(Then(xBreaking(d), breaking), day), week),
                 month), splitTicker), splitTables), stamp)

\* refreshAll with a guard that drops a snapshot older than the one the last
\* refresh cycle rendered, returning without rendering.
refreshAllUnlessOlder(v, d, h, p, now, cw, pat, tie) ==
  IF h.st = "rejected" \/ p.st = "rejected"
  THEN [dom |-> d, outcome |-> "caught", cause |-> "fetch", promise |-> "fulfilled"]
  ELSE IF last.kind = "refresh" /\ last.outcome = "rendered" /\ h.ver < last.h.ver
  THEN [dom |-> d, outcome |-> "rendered", cause |-> "none", promise |-> "fulfilled"]
  ELSE Let(RenderAll(v, d, h.val, p.val, now, cw, pat, tie), LAMBDA r :
         [dom |-> r.dom,
          outcome |-> IF r.threw THEN "caught" ELSE "rendered",
          cause |-> IF r.threw THEN "render" ELSE "none",
          promise |-> "fulfilled"])

\* refreshAll once Promise.all has settled: h and p are the two loadJSON
\* results, at least one rejected or both fulfilled.  outcome tells whether the
\* catch clause ran (and logged), promise how the returned promise settles.
refreshAll(v, d, h, p, now, cw, pat, tie) ==
  IF h.st = "rejected" \/ p.st = "rejected"
  THEN [dom |-> d, outcome |-> "caught", cause |-> "fetch", promise |-> "fulfilled"]
  ELSE Let(RenderAll(v, d, h.val, p.val, now, cw, pat, tie), LAMBDA r :
         [dom |-> r.dom,
          outcome |-> IF r.threw THEN "caught" ELSE "rendered",
          cause |-> IF r.threw THEN "render" ELSE "none",
          promise |-> "fulfilled"])

\* The resize and load handlers once their loadJSON has settled.
tickerHandler(v, d, p, cw, pat) ==
  IF p.st = "rejected"
  THEN [dom |-> d, outcome |-> "caught", cause |-> "fetch", promise |-> "fulfilled"]
  ELSE Let(IF v = "flat" THEN setupTicker(d, ArrayOrEmpty(p.val), cw, pat)
           ELSE IF ~Derefable(p.val) THEN Threw(d)     \* prices.prices of null
           ELSE setupTicker(d, OrElse(Field(p.val, "prices"), JArr(<<>>)), cw, pat),
           LAMBDA r :
         [dom |-> r.dom,
          outcome |-> IF r.threw THEN "caught" ELSE "rendered",
          cause |-> IF r.threw THEN "render" ELSE "none",
          promise |-> "fulfilled"])

\* Promise.all over the loadJSON promises of a cycle.
PromiseAll(fs) ==
  IF \E f \in fs : f.st = "rejected" THEN "rejected"
  ELSE IF \A f \in fs : f.st = "fulfilled" THEN "fulfilled"
  ELSE "pending"

(***************************************************************************)
(* The feeds the server may hold.  Version v of a feed carries v in its    *)
(* titles and prices; the shape says how the feed is (mal)formed.          *)
(***************************************************************************)
BaseTime == 1000 * MsPerMin

ItemA(v) ==
  [t |-> "object", title |-> JStr("headline " \o ToString(v)),
   link |-> JStr("https://news/" \o ToString(v)), source |-> JStr("wire"),
   published_at |-> IsoStr(BaseTime - 5 * MsPerMin)]
\* no link, no source, a published_at that does not parse
ItemB(v) ==
  [t |-> "object", title |-> JStr("note " \o ToString(v)),
   published_at |-> BadDateStr]

HeadlineShapes == {"full", "nullitem", "notiterable", "nostamp", "null"}

HeadlineFeed(v, shape) ==
  IF shape = "null" THEN JNull
  ELSE [t |-> "object",
        x_breaking |-> JArr(<<ItemA(v)>>),
        breaking |-> JArr(<<ItemA(v), ItemA(v)>>),
        day |-> IF shape = "nullitem" THEN JArr(<<ItemB(v), JNull>>) ELSE JArr(<<ItemB(v)>>),
        week |-> IF shape = "notiterable" THEN JNum(7) ELSE JArr(<<>>),
        month |-> Undef,
        generated_at |-> IF shape = "nostamp" THEN Undef ELSE IsoStr(BaseTime + v)]

Coin(sym, v, ch) ==
  [t |-> "object", symbol |-> JStr(sym), price |-> JNum(100 + v),
   change24h |-> JNum(ch), rank |-> JNum(1)]
\* no rank, no price, no change24h
BareCoin(sym) == [t |-> "object", symbol |-> JStr(sym)]

PriceShapes == {"flat", "split", "noprices", "null"}

PriceFeed(v, shape) ==
  LET all == <<Coin("btc", v, 150), BareCoin("eth"), Coin("xrp", v, -50)>>
  IN CASE shape = "null" -> JNull
       [] shape = "flat" -> JArr(all)
       [] shape = "split" ->
            [t |-> "object", prices |-> JArr(all),
             gainers |-> JArr(<<Coin("btc", v, 150)>>),
             losers |-> JArr(<<Coin("xrp", v, -50)>>)]
       [] OTHER ->
            [t |-> "object",
             gainers |-> JArr(<<Coin("btc", v, 150)>>),
             losers |-> JArr(<<Coin("xrp", v, -50)>>)]

(***************************************************************************)
(* The page before the script runs.                                        *)
(***************************************************************************)
ContentIds == (FlatTargets \cup SplitTargets) \ {".ticker-wrap"}
TableIds == {"market-body", "gainers-body", "losers-body"}

InitialChildren == <<[href |-> "#", text |-> "Loading", meta |-> ""]>>

InitialDom ==
  [id \in ContentIds |->
     CASE id \in ListIds -> InitialChildren
       [] id = "ticker" -> [run |-> <<>>, clones |-> 0, duration |-> ""]
       [] id \in TableIds -> <<>>
       [] id = "sentiment-indicator" -> [sentiment |-> "", avg |-> ""]
       [] OTHER -> ""]

(***************************************************************************)
(* Refresh cycles.  A cycle is a call of refreshAll (kind "refresh": two   *)
(* fetches, h and p) or of the resize / load handler (kind "ticker": one   *)
(* fetch, p), from its start until its fetches have settled.               *)
(***************************************************************************)
\* ver is the version of the feed the server held when the request was sent,
\* which is the version a response carries; kind is the kind of response.
NoFetch == [st |-> "none", val |-> Undef, ver |-> 0, kind |-> "none"]
Sent == [st |-> "sent", val |-> Undef, ver |-> server, kind |-> "none"]

NewCycle(kind, origin) ==
  [kind |-> kind, origin |-> origin,
   h |-> IF kind = "refresh" THEN Sent ELSE NoFetch, p |-> Sent]

NoLast ==
  [kind |-> "none", origin |-> "none", outcome |-> "none",
   cause |-> "none", promise |-> "none", h |-> NoFetch, p |-> NoFetch,
   shown |-> 0]

NoCall == [fn |-> "none"]

Fetches(c) == IF c.kind = "refresh" THEN {"h", "p"} ELSE {"p"}

\* What the environment supplies when a handler runs: the clock, the width
\* .ticker-wrap measures (0 when it is not laid out), the scrollWidth of the
\* clones, and how toFixed rounds a tie (which the feeds above never produce).
RefreshClock == {BaseTime}
RefreshWidths == {MaxClientW}
RefreshPatterns == {<<0>>}
RefreshTies == {"up"}

StartCycle(kind, origin) ==
  /\ cycles' = [i \in DOMAIN cycles \cup {started} |->
                  IF i = started THEN NewCycle(kind, origin) ELSE cycles[i]]
  /\ started' = started + 1

\* setInterval(refreshAll, REFRESH_MS) fires.
TimerTick(cap) ==
  /\ timerArmed
  /\ started < cap
  /\ StartCycle("refresh", "timer")
  /\ UNCHANGED <<variant, present, dom, server, timerArmed, loadFired, last, call>>

\* The viewport is resized and the registered handler runs.
Resize(cap) ==
  /\ timerArmed
  /\ started < cap
  /\ StartCycle("ticker", "resize")
  /\ UNCHANGED <<variant, present, dom, server, timerArmed, loadFired, last, call>>

\* The window's load event; only the flat variant listens for it, and only
\* once the startup cycle is over.
LoadEvent(cap) ==
  /\ variant = "flat"
  /\ ~loadFired
  /\ loadFired' = TRUE
  /\ IF timerArmed
     THEN started < cap /\ StartCycle("ticker", "load")
     ELSE UNCHANGED <<cycles, started>>
  /\ UNCHANGED <<variant, present, dom, server, timerArmed, last, call>>

\* The feed generator publishes a new version of both feeds.
Publish ==
  /\ server < MaxVer
  /\ server' = server + 1
  /\ UNCHANGED <<variant, present, dom, cycles, started, timerArmed, loadFired,
                 last, call>>

Max(a, b) == IF a >= b THEN a ELSE b

\* The record kept of the cycle that has just settled; shown is the newest
\* version of the feeds a refresh cycle had rendered before it did.
Settled(c, r) ==
  [kind |-> c.kind, origin |-> c.origin,
   outcome |-> r.outcome, cause |-> r.cause, promise |-> r.promise,
   h |-> c.h, p |-> c.p,
   shown |-> IF last.kind = "refresh" /\ last.outcome = "rendered"
             THEN Max(last.shown, last.h.ver) ELSE last.shown]

\* One loadJSON promise settles: the response is of one of the four kinds and,
\* when it has a body, carries the feed the server held when the request was
\* sent.  No timeout is applied: a request that is never answered is one for
\* which this step never happens.  When that settles the cycle's Promise.all, the rest of
\* the handler runs in the same turn of the event loop; when the startup
\* cycle's refreshAll fulfils, the script goes on to setInterval and
\* addEventListener.
LoadSettles(hshapes, pshapes) ==
  \E id \in DOMAIN cycles : \E which \in Fetches(cycles[id]) :
  \E kind \in ResponseKinds :
  \E shape \in (IF which = "h" THEN hshapes ELSE pshapes) :
    /\ cycles[id][which].st = "sent"
    /\ kind # "ok" => shape \in {"full", variant}
    /\ \E res \in {loadJSON(Response(kind,
                     IF which = "h" THEN HeadlineFeed(cycles[id][which].ver, shape)
                     ELSE PriceFeed(cycles[id][which].ver, shape)))} :
       \E c \in {[cycles[id] EXCEPT ![which] =
                    [st |-> res.st, val |-> res.val, ver |-> cycles[id][which].ver,
                     kind |-> kind]]} :
         IF PromiseAll({c[f] : f \in Fetches(c)}) = "pending"
         THEN /\ cycles' = [cycles EXCEPT ![id] = c]
              /\ UNCHANGED <<dom, last, timerArmed>>
         ELSE \E now \in RefreshClock : \E cw \in RefreshWidths :
              \E pat \in RefreshPatterns : \E tie \in RefreshTies :
              \E r \in {IF c.kind = "refresh"
                        THEN refreshAll(variant, dom, c.h, c.p, now, cw, pat, tie)
                        ELSE tickerHandler(variant, dom, c.p, cw, pat)} :
                /\ cycles' = [i \in DOMAIN cycles \ {id} |-> cycles[i]]
                /\ dom' = r.dom
                /\ last' = Settled(c, r)
                /\ timerArmed' = (timerArmed \/
                                  (c.origin = "startup" /\ r.promise = "fulfilled"))
    /\ UNCHANGED <<variant, present, server, started, loadFired, call>>

(***************************************************************************)
(* The page: the script has run up to `await refreshAll()`, so the startup *)
(* cycle's two requests are out and no timer or listener is set yet.       *)
(***************************************************************************)
Startup ==
  /\ server = 1
  /\ dom = InitialDom
  /\ cycles = [i \in {0} |-> NewCycle("refresh", "startup")]
  /\ started = 1
  /\ timerArmed = FALSE
  /\ loadFired = FALSE
  /\ last = NoLast
  /\ call = NoCall

Init ==
  /\ variant \in {"flat", "split"}
  /\ present = Targets(variant)
  /\ Startup

\* Well-formed feeds only; prices.json is a bare array or an object,
\* whichever the page expects.
WellFormed == {"full"}

Next ==
  \/ TimerTick(MaxCycles)
  \/ Resize(MaxCycles)
  \/ Publish
  \/ LoadSettles(WellFormed, {variant})

Spec == Init /\ [][Next]_vars

\* A timer that is armed keeps firing; nothing makes the network answer.
FairSpec == Spec /\ WF_vars(TimerTick(MaxCycles))

(***************************************************************************)
(* Malformed feeds, one refresh cycle at a time.                           *)
(***************************************************************************)
NextFeeds ==
  \/ TimerTick(FeedCycles)
  \/ Resize(FeedCycles)
  \/ LoadEvent(FeedCycles)
  \/ Publish
  \/ LoadSettles(HeadlineShapes, PriceShapes)

SpecFeeds == Init /\ [][NextFeeds]_vars

(***************************************************************************)
(* Pages that lack one of the targets the script consumes.                 *)
(***************************************************************************)
InitTargets ==
  /\ variant \in {"flat", "split"}
  /\ \E missing \in Targets(variant) : present = Targets(variant) \ {missing}
  /\ Startup

NextTargets ==
  \/ TimerTick(FeedCycles)
  \/ Resize(FeedCycles)
  \/ LoadEvent(FeedCycles)
  \/ Publish
  \/ LoadSettles(WellFormed, {variant})

SpecTargets == InitTargets /\ [][NextTargets]_vars

(***************************************************************************)
(* The helpers called directly, on inputs drawn from bounded sets.         *)
(***************************************************************************)
Idle ==
  /\ server = 1
  /\ cycles = [i \in {} |-> NewCycle("refresh", "startup")]
  /\ started = 0
  /\ timerArmed = FALSE
  /\ loadFired = FALSE
  /\ last = NoLast
  /\ call = NoCall

MsPerDay == 24 * 60 * MsPerMin

ElapsedSamples ==
  {0, 59000, 59999, 60000, 61000, 3599000, 3600000, 3601000,
   86399000, 86400000, 86401000}
  \cup {d * MsPerDay + k : d \in 1..MaxDays, k \in {-1, 0}}
NowSamples == {BaseTime + e : e \in ElapsedSamples}
DateArgs == {IsoStr(BaseTime), IsoStr(BaseTime + 2 * MsPerMin), BadDateStr, Undef, JNull}

CallFmtTimeAgo ==
  \E arg \in DateArgs : \E now \in NowSamples :
    /\ call.fn = "fmtTimeAgo" => ~call.prev.some
    /\ call' = [fn |-> "fmtTimeAgo", arg |-> arg, now |-> now,
                out |-> fmtTimeAgo(arg, now), parts |-> FmtTimeAgoParts(arg, now),
                prev |-> IF call.fn = "fmtTimeAgo"
                         THEN [some |-> TRUE, arg |-> call.arg, now |-> call.now,
                               parts |-> call.parts]
                         ELSE [some |-> FALSE]]
    /\ UNCHANGED <<variant, present, dom, server, cycles, started, timerArmed,
                   loadFired, last>>

InitFmt ==
  /\ variant = "flat"
  /\ present = FlatTargets
  /\ dom = InitialDom
  /\ Idle

SpecFmt == InitFmt /\ [][CallFmtTimeAgo]_vars

\* renderList
RECURSIVE SeqsUpTo(_, _)
SeqsUpTo(S, n) ==
  IF n = 0 THEN {<<>>}
  ELSE LET shorter == SeqsUpTo(S, n - 1)
       IN shorter \cup {Append(q, x) : q \in shorter, x \in S}

\* a headline with a source and nothing else
ItemC == [t |-> "object", title |-> JStr("brief"), source |-> JStr("desk")]
ItemPool == {ItemA(1), ItemB(1), ItemC, JNull}
ItemsArgs == {Undef, JNum(7)} \cup {JArr(q) : q \in SeqsUpTo(ItemPool, MaxItems)}
DriverListIds == {"breaking", "day"}

CallRenderList ==
  \E id \in DriverListIds : \E items \in ItemsArgs : \E now \in RefreshClock :
    \E r \in {renderList(dom, id, items, now)} :
       /\ dom' = r.dom
       /\ call' = [fn |-> "renderList", id |-> id, items |-> items, now |-> now,
                   threw |-> r.threw]
       /\ UNCHANGED <<variant, present, server, cycles, started, timerArmed,
                      loadFired, last>>

InitList ==
  /\ variant = "flat"
  /\ present \in {FlatTargets, FlatTargets \ {"day"}}
  /\ dom \in {InitialDom, [InitialDom EXCEPT !["breaking"] = <<>>]}
  /\ Idle

SpecList == InitList /\ [][CallRenderList]_vars

\* setupTicker
ScrollWidths ==
  (0..MaxScrollW) \cup {DefaultContainerW \div 2, DefaultContainerW, 2 * DefaultContainerW + 1}
Patterns == SeqsUpTo(ScrollWidths, 2) \ {<<>>}
\* The layouts whose clone loop stops within MaxClones clones.
LayoutOK(cw, pat) ==
  \A i \in 1..Len(pat) :
    MaxClones * (IF pat[i] # 0 THEN pat[i] ELSE ContainerW(cw)) >= 2 * ContainerW(cw)
PriceArgs ==
  {Undef, JArr(<<>>), JArr(<<Coin("btc", 1, 150)>>),
   JArr(<<Coin("btc", 1, 150), BareCoin("eth")>>), JArr(<<BareCoin("eth"), JNull>>)}

CallSetupTicker ==
  \E prices \in PriceArgs : \E cw \in 0..MaxClientW : \E pat \in Patterns :
    /\ call.fn = "none"
    /\ LayoutOK(cw, pat)
    /\ \E r \in {setupTicker(dom, prices, cw, pat)} :
       /\ dom' = r.dom
       /\ call' = [fn |-> "setupTicker", prices |-> prices, cw |-> cw, pat |-> pat,
                   threw |-> r.threw]
       /\ UNCHANGED <<variant, present, server, cycles, started, timerArmed,
                      loadFired, last>>

InitTicker ==
  /\ variant = "flat"
  /\ present \in {FlatTargets, FlatTargets \ {".ticker-wrap"}, FlatTargets \ {"ticker"}}
  /\ dom = InitialDom
  /\ Idle

SpecTicker == InitTicker /\ [][CallSetupTicker]_vars

\* renderGainersLosers; change24h is in hundredths of a percent
ChangeSamples == (-MaxChange..MaxChange) \cup {100, 300}
SentimentCoins == {BareCoin("eth")} \cup {Coin("btc", 1, ch) : ch \in ChangeSamples}
PriceLists == SeqsUpTo(SentimentCoins, MaxPrices)
Ties == {"up", "down"}

CallRenderGainersLosers ==
  \E list \in PriceLists : \E tie \in Ties :
    /\ call.fn = "none"
    /\ \E r \in {renderGainersLosers(dom,
                  [t |-> "object", prices |-> JArr(list),
                   gainers |-> JArr(Take(list, 1)), losers |-> JArr(<<>>)], tie)} :
       /\ dom' = r.dom
       /\ call' = [fn |-> "renderGainersLosers", list |-> list, threw |-> r.threw]
       /\ UNCHANGED <<variant, present, server, cycles, started, timerArmed,
                      loadFired, last>>

InitSentiment ==
  /\ variant = "split"
  /\ present \in {SplitTargets, SplitTargets \ {"sentiment-indicator"},
                  SplitTargets \ {"losers-body"}}
  /\ dom = InitialDom
  /\ Idle

SpecSentiment == InitSentiment /\ [][CallRenderGainersLosers]_vars

(***************************************************************************)
(* fmtTimeAgo against its tiers (SpecFmt).                                 *)
(***************************************************************************)
IsParseable(arg) == arg.t = "string" /\ arg.v = "iso"
Elapsed(arg, now) == IF now - arg.ms > 0 THEN now - arg.ms ELSE 0

\* The label the tiers give an elapsed time e, in ms.
TierLabel(e) ==
  LET m == e \div MsPerMin
      h == m \div 60
      d == h \div 24
  IN IF m < 1 THEN "just now"
     ELSE IF m < 60 THEN ToString(m) \o "m ago"
     ELSE IF h < 24 THEN ToString(h) \o "h ago"
     ELSE ToString(d) \o "d ago"

TierRank(unit) == CASE unit = "now" -> 0 [] unit = "m" -> 1 [] unit = "h" -> 2 [] unit = "d" -> 3

ExampleLabels ==
  {<<0, "just now">>, <<59000, "just now">>, <<61000, "1m ago">>,
   <<3599000, "59m ago">>, <<3601000, "1h ago">>, <<86399000, "23h ago">>,
   <<86401000, "1d ago">>}

\* C3: for a timestamp that parses, fmtTimeAgo returns the label of the tier
\* of e = max(0, now - timestamp) (m = floor(e/60000), h = floor(m/60),
\* d = floor(h/24)); the listed elapsed times give the listed labels; a
\* timestamp in the future gives "just now"; and of two calls the one with
\* the larger elapsed time has the higher tier or, within the same tier, a
\* number at least as large.
C3_Tiers ==
  (call.fn = "fmtTimeAgo" /\ IsParseable(call.arg)) =>
    /\ call.out = TierLabel(Elapsed(call.arg, call.now))
    /\ \A ex \in ExampleLabels :
         call.now - call.arg.ms = ex[1] => call.out = ex[2]
    /\ call.now < call.arg.ms => call.out = "just now"
    /\ (call.prev.some /\ IsParseable(call.prev.arg)
         /\ Elapsed(call.prev.arg, call.prev.now) <= Elapsed(call.arg, call.now)) =>
          /\ TierRank(call.prev.parts.unit) <= TierRank(call.parts.unit)
          /\ call.prev.parts.unit = call.parts.unit =>
               call.prev.parts.n.v <= call.parts.n.v

\* Two calls, the second a full hour after a first that printed 59 minutes.
C3_Witness ==
  /\ call.fn = "fmtTimeAgo" /\ IsParseable(call.arg)
  /\ call.now - call.arg.ms = 3601000 /\ call.out = "1h ago"
  /\ call.prev.some /\ IsParseable(call.prev.arg)
  /\ call.prev.now - call.prev.arg.ms = 3599000
  /\ call.prev.parts = [unit |-> "m", n |-> Num(59)]

\* C4: called with a string that is no date, or with a missing published_at,
\* fmtTimeAgo returns the empty string.
C4_UnparseableGivesEmpty ==
  (call.fn = "fmtTimeAgo" /\ call.arg \in {BadDateStr, Undef}) => call.out = ""

(***************************************************************************)
(* renderList against its input (SpecList).                                *)
(***************************************************************************)
\* The items a call was given: none when the argument is missing.
GivenItems(items) == IF items.t = "array" THEN items.v ELSE <<>>

\* C5: after renderList(id, items) has returned on a present target, the
\* target holds exactly len(items) entries, the i-th carrying the title of
\* the i-th item, whatever it held before; with an empty or missing items
\* argument it holds none.
C5_ExactEntries ==
  (call.fn = "renderList" /\ call.id \in present /\ ~call.threw) =>
    LET its == GivenItems(call.items)
    IN /\ Len(dom[call.id]) = Len(its)
       /\ \A i \in 1..Len(its) : dom[call.id][i].text = its[i].title.v

\* The same item twice, rendered into a list that was not empty.
C5_Witness ==
  /\ call.fn = "renderList" /\ call.id = "breaking" /\ ~call.threw
  /\ call.items = JArr(<<ItemA(1), ItemA(1)>>)
  /\ Len(dom["breaking"]) = 2
  /\ dom["breaking"][1] = dom["breaking"][2]
  /\ dom["breaking"][1].text = "headline 1"

(***************************************************************************)
(* The ticker's clones against the container (SpecTicker).                 *)
(***************************************************************************)
\* The width the k-th clone (from 0) adds in a container measured as cw.
CloneWidth(cw, pat, k) ==
  LET w == pat[(k % Len(pat)) + 1]
  IN IF w # 0 THEN w ELSE IF cw # 0 THEN cw ELSE 800

RECURSIVE ClonesWidth(_, _, _)
ClonesWidth(cw, pat, n) ==
  IF n = 0 THEN 0 ELSE ClonesWidth(cw, pat, n - 1) + CloneWidth(cw, pat, n - 1)

TickerFilled ==
  /\ call.fn = "setupTicker" /\ ~call.threw
  /\ {".ticker-wrap", "ticker"} \subseteq present
  /\ call.prices.t = "array" /\ call.prices.v # <<>>

\* C2: when setupTicker returns for a non-empty price list with both ticker
\* targets present, the clones it appended are together at least twice as
\* wide as the container (800 when the container measures 0), without the
\* last of them they are narrower than that, and each of them adds a width
\* greater than 0.
C2_MinimalCover ==
  TickerFilled =>
    LET n == dom["ticker"].clones
        twice == 2 * (IF call.cw # 0 THEN call.cw ELSE 800)
    IN /\ n >= 1
       /\ ClonesWidth(call.cw, call.pat, n) >= twice
       /\ ClonesWidth(call.cw, call.pat, n - 1) < twice
       /\ \A k \in 0..(n - 1) : CloneWidth(call.cw, call.pat, k) > 0

\* An unmeasured container and clones 400 wide: four of them reach 1600.
C2_Witness ==
  /\ TickerFilled
  /\ call.cw = 0 /\ call.pat = <<400>>
  /\ dom["ticker"].clones = 4

(***************************************************************************)
(* The sentiment label against the mean change (SpecSentiment).  Changes   *)
(* are held in hundredths of a percent.                                    *)
(***************************************************************************)
\* The change an item counts for: 0 when it has none.
ChangeOf(c) == IF "change24h" \in DOMAIN c THEN c.change24h.v ELSE 0

RECURSIVE TotalChange(_)
TotalChange(list) ==
  IF list = <<>> THEN 0 ELSE ChangeOf(Head(list)) + TotalChange(Tail(list))

\* h hundredths written with two decimals, with a minus sign when negative.
TwoDecimals(h, negative) ==
  (IF negative THEN "-" ELSE "") \o ToString(h \div 100) \o "."
  \o (IF h % 100 < 10 THEN "0" ELSE "") \o ToString(h % 100)

SentimentRendered ==
  /\ call.fn = "renderGainersLosers" /\ ~call.threw
  /\ {"gainers-body", "losers-body", "sentiment-indicator"} \subseteq present

CycleSettles == DOMAIN cycles' # DOMAIN cycles /\ started' = started

FailureKinds == {"http_error", "network_error", "bad_json"}

\* C1: when a refresh cycle settles with one of its two loadJSON calls
\* having met a non-OK status, a transport error or malformed JSON, the
\* step leaves every region of the page as it was, the catch clause has run
\* and the promise refreshAll returned is fulfilled.
C1_RejectedFetchRendersNothing ==
  [][(/\ CycleSettles
      /\ last'.kind = "refresh"
      /\ (last'.h.kind \in FailureKinds \/ last'.p.kind \in FailureKinds))
     => (/\ dom' = dom
         /\ last'.outcome = "caught"
         /\ last'.promise = "fulfilled")]_vars

\* A timer cycle whose headlines arrived and whose prices did not parse,
\* over a page the startup cycle had rendered.
C1_Witness ==
  /\ last.kind = "refresh" /\ last.origin = "timer"
  /\ last.h.st = "fulfilled" /\ last.h.kind = "ok"
  /\ last.p.kind = "bad_json"
  /\ last.outcome = "caught" /\ last.promise = "fulfilled"
  /\ dom["x_breaking"] # InitialChildren
  /\ dom["lastUpdated"] # ""

\* The coins the ticker is given from a prices feed.
TickerCoins(p) ==
  IF variant = "flat" THEN (IF p.t = "array" THEN p.v ELSE <<>>)
  ELSE IF p.t = "object" /\ "prices" \in DOMAIN p THEN p.prices.v ELSE <<>>

ShowsHeadlines(h) ==
  /\ \A id \in {"x_breaking", "breaking", "day"} :
       /\ Len(dom[id]) = Len(h[id].v)
       /\ \A i \in 1..Len(dom[id]) : dom[id][i].text = h[id].v[i].title.v
  /\ dom["week"] = <<>> /\ dom["month"] = <<>>
  /\ dom["lastUpdated"] = "Last updated @" \o ToString(h.generated_at.ms)

ShowsTicker(p) ==
  /\ Len(dom["ticker"].run) = Len(TickerCoins(p))
  /\ TickerCoins(p) # <<>> =>
       dom["ticker"].run[1] = "#1 BTC $" \o ToString(TickerCoins(p)[1].price.v)

\* C10: whenever the cycle that settled last rendered, the page shows that
\* cycle's snapshot (the headline lists and the last-updated label for a
\* refresh cycle, the ticker for any cycle), whichever cycles started after
\* it and whatever they had displayed.
C10_LastSettledWins ==
  last.outcome = "rendered" =>
    /\ last.kind = "refresh" => ShowsHeadlines(last.h.val)
    /\ ShowsTicker(last.p.val)

\* A timer cycle that rendered version 1 after a later cycle had displayed
\* version 2.
C10_Witness ==
  /\ last.kind = "refresh" /\ last.origin = "timer" /\ last.outcome = "rendered"
  /\ last.h.ver = 1 /\ last.shown = 2
  /\ server = 2
  /\ dom["x_breaking"][1].text = "headline 1"
  /\ dom["lastUpdated"] = "Last updated @" \o ToString(BaseTime + 1)

(***************************************************************************)
(* Pages with one target missing (SpecTargets), malformed feeds            *)
(* (SpecFeeds) and requests that are never answered (FairSpec).            *)
(***************************************************************************)
\* The region of target id shows the snapshot h, p.
RegionShows(id, h, p) ==
  CASE id \in {"x_breaking", "breaking", "day"} ->
         /\ Len(dom[id]) = Len(h[id].v)
         /\ \A i \in 1..Len(dom[id]) : dom[id][i].text = h[id].v[i].title.v
    [] id \in {"week", "month"} -> dom[id] = <<>>
    [] id = "ticker" -> ".ticker-wrap" \in present => ShowsTicker(p)
    [] id = "market-body" -> Len(dom[id]) = Len(p.v)
    [] id = "gainers-body" -> Len(dom[id]) = Len(p.gainers.v)
    [] id = "losers-body" -> Len(dom[id]) = Len(p.losers.v)
    [] id = "sentiment-indicator" -> dom[id].sentiment \in {"Bullish", "Bearish"}
    [] id = "lastUpdated" ->
         dom[id] = "Last updated @" \o ToString(h.generated_at.ms)
    [] OTHER -> TRUE

\* C7: on a page with one target missing, once a refresh cycle has run to
\* its end without raising, every region whose target is present shows that
\* cycle's snapshot.
C7_OtherRegionsRendered ==
  (last.kind = "refresh" /\ last.outcome = "rendered") =>
    \A id \in present : RegionShows(id, last.h.val, last.p.val)

\* C8: a refresh cycle that ends in the catch clause, for a rejected fetch
\* or for an exception raised while rendering, leaves every region of the
\* page as it was.
C8_FailedCycleLeavesAll ==
  [][(CycleSettles /\ last'.kind = "refresh" /\ last'.outcome = "caught")
     => dom' = dom]_vars

\* C9: with a timer that keeps firing once set, a cycle after the startup
\* cycle eventually starts, whether or not the startup cycle's requests are
\* ever answered.
C9_NextCycleStarts == <>(started > 1)

====
